---- MODULE Spec2Model ----
(***************************************************************************)
(* A model of artic_mqc.py: run() resolves the expected amplicons from a   *)
(* primer scheme, streams the align_trim report to count reads per         *)
(* amplicon, renumbers and classifies the counts, and writes two MultiQC   *)
(* documents.                                                              *)
(*                                                                         *)
(* Strings that the code splits on "_" are sequences of tokens (the text   *)
(* between underscores): "a_1_LEFT" is <<"a", "1", "LEFT">>.  Integer      *)
(* columns of the report hold the integer that int() reads from them.      *)
(* The threshold 0.95 is held in percent: for integers a and r the test    *)
(* a < 0.95 * r of the code agrees with 100 * a < 95 * r.                  *)
(***************************************************************************)
EXTENDS Integers, Sequences, FiniteSets, TLC

\* ------------------------------------------------------------- bounds ----
\* primer records in a scheme
MaxPrimers == 4
\* data rows of an align_trim report
MaxRows == 6
\* args.min_depth ranges over 0..MaxDepth
MaxDepth == 2
\* data rows of a report aggregated under two thresholds
MaxMonoRows == 3

\* ---------------------------------------------------------- constants ----
\* Alignment_Length_Threshold = 0.95, in percent
Alignment_Length_Threshold == 95

VARIABLES
    pc,                       \* position of run()
    error,                    \* why the run aborted ("none" while it has not)
    primer_scheme,            \* getSchemeAmplicons: the list read_bed_file returned
    amplicons,                \* run: amplicons / amplicon_counts (one dict, mutated in place)
    fields,                   \* getAmpliconCounts: the fields of the current row
    tally,                    \* history: rows read so far, by what the filters did
    min_depth,                \* args.min_depth, as read by the classification loop
    readCount,                \* run: readCount
    dropouts,                 \* run: dropouts
    amplicon_renamed_counts,  \* run: amplicon_renamed_counts
    vcf_report,               \* args.vcf_report and the file it names
    statsData,                \* run: statsData
    plot_file,                \* <sample>.amplicon_plot_data_mqc.json (<<>>: not written)
    stats_file,               \* <sample>.amplicon_stats_data_mqc.json (<<>>: not written)
    mono                      \* two aggregations of one report under two thresholds

vars == <<pc, error, primer_scheme, amplicons, fields, tally, min_depth,
          readCount, dropouts, amplicon_renamed_counts, vcf_report,
          statsData, plot_file, stats_file, mono>>

\* ------------------------------------------------------------- dicts ----
\* A Python dict is a sequence of [k, v] entries in insertion order.
DictHas(d, key) == \E i \in 1..Len(d) : d[i].k = key

DictGet(d, key) == d[CHOOSE i \in 1..Len(d) : d[i].k = key].v

DictSet(d, key, val) ==
    IF DictHas(d, key)
    THEN [i \in 1..Len(d) |-> IF d[i].k = key THEN [k |-> key, v |-> val] ELSE d[i]]
    ELSE Append(d, [k |-> key, v |-> val])

DictKeys(d) == {d[i].k : i \in 1..Len(d)}

\* ------------------------------------------------ getSchemeAmplicons ----
\* s.split("_" + tok)[0]: the text before the first "_tok"
SplitBefore(id, tok) ==
    LET hits == {i \in 2..Len(id) : id[i] = tok}
    IN  IF hits = {} THEN id
        ELSE SubSeq(id, 1, (CHOOSE i \in hits : \A j \in hits : i <= j) - 1)

\* lines 105-109
BaseOf(primer) ==
    IF primer.direction = "+"
    THEN SplitBefore(primer.Primer_ID, "LEFT")
    ELSE SplitBefore(primer.Primer_ID, "RIGHT")

\* lines 104-112: the number of primer records of each base
RECURSIVE CountPrimers(_, _)
CountPrimers(scheme, d) ==
    IF scheme = <<>> THEN d
    ELSE LET a  == BaseOf(Head(scheme))
             d0 == IF DictHas(d, a) THEN d ELSE DictSet(d, a, 0)
         IN  CountPrimers(Tail(scheme), DictSet(d0, a, DictGet(d0, a) + 1))

\* line 118: "{}_LEFT_{}_RIGHT".format(amplicon, amplicon)
AmpliconKey(base) == base \o <<"LEFT">> \o base \o <<"RIGHT">>

\* line 115: the test that aborts the resolver
WrongPrimerCount(n) == n # 2

\* the resolver with `continue` in place of SystemExit: a base with a wrong
\* number of primers is left out and the rest is returned
RECURSIVE NameAmplicons_Skip(_, _)
NameAmplicons_Skip(d, named) ==
    IF d = <<>> THEN [ok |-> TRUE, named |-> named]
    ELSE IF Head(d).v # 2 THEN NameAmplicons_Skip(Tail(d), named)
    ELSE NameAmplicons_Skip(Tail(d), DictSet(named, Head(d).k \o <<"LEFT">> \o Head(d).k \o <<"RIGHT">>, 0))

\* lines 113-119: [ok, named]; ok is FALSE when SystemExit(1) was raised, and
\* named is then the part of named_amplicons built so far, which is not returned
RECURSIVE NameAmplicons(_, _)
NameAmplicons(d, named) ==
    IF d = <<>> THEN [ok |-> TRUE, named |-> named]
    ELSE IF WrongPrimerCount(Head(d).v) THEN [ok |-> FALSE, named |-> named]
    ELSE NameAmplicons(Tail(d), DictSet(named, AmpliconKey(Head(d).k), 0))

getSchemeAmplicons(scheme) == NameAmplicons(CountPrimers(scheme, <<>>), <<>>)

\* ------------------------------------------------- getAmpliconCounts ----
\* fields[i] of the code is Col(f, i)
Col(f, i) == f[i + 1]

\* line 148, negated: the read is from a properly paired amplicon
PairedOk(f) == Col(f, 12) = 1

\* the length filter with <= in place of <: a read of exactly F of the amplicon is dropped
LengthOk_Strict(f, F) ==
    ~ (100 * (f[12] - f[11]) <= F * (f[3] - f[2]))

\* the length filter with the comparison turned round: the short alignments are kept
LengthOk_Inverted(f, F) ==
    ~ (100 * (f[12] - f[11]) > F * (f[3] - f[2]))

\* lines 152-154, negated: not (aLen < F * rLen), F in percent
LengthOk(f, F) ==
    LET aLen == Col(f, 11) - Col(f, 10)
        rLen == Col(f, 2) - Col(f, 1)
    IN  ~ (100 * aLen < F * rLen)

\* the loop body with the lookup of the amplicon moved before the two filters
RowStep_LookupFirst(amps, f, F) ==
    IF ~ (\E i \in 1..Len(amps) : amps[i].k = f[4])
    THEN [status |-> "abort", amplicons |-> amps]
    ELSE IF f[13] # 1 \/ 100 * (f[12] - f[11]) < F * (f[3] - f[2])
    THEN [status |-> "skip", amplicons |-> amps]
    ELSE [status |-> "count",
          amplicons |-> [i \in 1..Len(amps) |->
                            IF amps[i].k = f[4]
                            THEN [k |-> amps[i].k, v |-> amps[i].v + 1] ELSE amps[i]]]

\* lines 145-161: one iteration of the loop over the report
RowStep(amps, f, F) ==
    IF ~ PairedOk(f) THEN [status |-> "skip", amplicons |-> amps]
    ELSE IF ~ LengthOk(f, F) THEN [status |-> "skip", amplicons |-> amps]
    ELSE IF ~ DictHas(amps, Col(f, 3)) THEN [status |-> "abort", amplicons |-> amps]
    ELSE [status |-> "count",
          amplicons |-> DictSet(amps, Col(f, 3), DictGet(amps, Col(f, 3)) + 1)]

\* ------------------------------------------------------ classification ----
\* int(s): the tokens int() reads, and what it reads from them
IntTokens == {"1", "2"}

IntOf(tok) == IF tok = "1" THEN 1 ELSE 2

\* split('_')[0] in place of split('_')[1]
OrdinalToken_First(key) == key[1]

\* line 206: amplicon.split('_')[1]
OrdinalToken(key) == key[2]

\* readCount += 1 in place of readCount += count
ReadCount_Entries(d) == Len(d)

\* lines 204-205: readCount
RECURSIVE ReadCount(_)
ReadCount(d) == IF d = <<>> THEN 0 ELSE Head(d).v + ReadCount(Tail(d))

\* count <= min_depth in place of count < min_depth
IsDropout_Inclusive(count, depth) == count <= depth

\* line 207: the dropout test
IsDropout(count, depth) == count < depth

\* lines 207-208: dropouts
RECURSIVE Dropouts(_, _)
Dropouts(d, depth) ==
    IF d = <<>> THEN 0
    ELSE (IF IsDropout(Head(d).v, depth) THEN 1 ELSE 0) + Dropouts(Tail(d), depth)

\* line 206 raises ValueError on a key whose second token is no integer
RenameFails(d) == \E i \in 1..Len(d) : OrdinalToken(d[i].k) \notin IntTokens

\* lines 203-206: amplicon_renamed_counts, a later key overwriting an equal earlier one
RECURSIVE RenamedCounts(_, _)
RenamedCounts(d, acc) ==
    IF d = <<>> THEN acc
    ELSE LET n == IntOf(OrdinalToken(Head(d).k))
         IN  RenamedCounts(Tail(d),
                 [x \in (DOMAIN acc) \cup {n} |-> IF x = n THEN Head(d).v ELSE acc[x]])

\* ------------------------------------------------------------ reports ----
\* lines 211-216: what the plot file holds once written
PlotDocument(depth, data) == [dropout |-> depth, data |-> data]

\* the plot file written only at the end of run, with the stats file
WritePlot_Deferred(doc) == <<>>

\* lines 214-216: the plot file once written
WritePlot(doc) == <<doc>>

\* lines 186-188: every column of the first row but "input VCF file"
RECURSIVE VCFStats(_, _)
VCFStats(firstline, stats) ==
    IF firstline = <<>> THEN stats
    ELSE IF Head(firstline).k # "input VCF file"
         THEN VCFStats(Tail(firstline), DictSet(stats, Head(firstline).k, Head(firstline).v))
         ELSE VCFStats(Tail(firstline), stats)

\* lines 223-224
RECURSIVE MergeStats(_, _)
MergeStats(stats, extra) ==
    IF extra = <<>> THEN stats
    ELSE MergeStats(DictSet(stats, Head(extra).k, Head(extra).v), Tail(extra))

\* lines 219-221
BaseStats(count, drops) ==
    <<[k |-> "# mapped reads", v |-> count], [k |-> "# low cov. amplicons", v |-> drops]>>

\* -------------------------------------------------------------- inputs ----
Bases == {<<"1">>, <<"2">>, <<"a", "1">>, <<"a", "2">>, <<"b", "1">>}

PrimerRecords ==
    {[Primer_ID |-> b \o <<"LEFT">>, direction |-> "+"] : b \in Bases}
    \cup {[Primer_ID |-> b \o <<"RIGHT">>, direction |-> "-"] : b \in Bases}
    \cup {[Primer_ID |-> <<"2", "LEFT">>, direction |-> "-"]}

Schemes == UNION {[1..n -> PrimerRecords] : n \in 0..MaxPrimers}

\* an amplicon name that no scheme of the model defines
UnknownAmplicon == <<"x", "9", "LEFT", "x", "9", "RIGHT">>

\* a row of the report: 13 tab-separated columns
MkRow(rStart, rEnd, name, aStart, aEnd, paired) ==
    <<0, rStart, rEnd, name, 0, 0, 0, 0, 0, 0, aStart, aEnd, paired>>

Rows(names) ==
    {MkRow(rs, re, n, as, ae, p) :
        rs \in {0, 20}, re \in {0, 20}, n \in names,
        as \in {0, 1}, ae \in {19, 20}, p \in {0, 1, 2}}

\* the first data row of a vcfcheck report: the columns artic-tools check_vcf
\* writes (lines 182-184), none of them one of the two labels run sets itself
VcfRow == <<[k |-> "input VCF file", v |-> "s.vcf"], [k |-> "num variants", v |-> "3"]>>

\* args.vcf_report: not given, a missing file, a header alone, one or two data rows
VcfReports ==
    {[given |-> FALSE, exists |-> FALSE, rows |-> <<>>],
     [given |-> TRUE, exists |-> FALSE, rows |-> <<>>],
     [given |-> TRUE, exists |-> TRUE, rows |-> <<>>],
     [given |-> TRUE, exists |-> TRUE, rows |-> <<VcfRow>>],
     [given |-> TRUE, exists |-> TRUE,
      rows |-> <<VcfRow, <<[k |-> "input VCF file", v |-> "t.vcf"],
                           [k |-> "num variants", v |-> "7"]>> >>]}

NoVcf == [given |-> FALSE, exists |-> FALSE, rows |-> <<>>]

NoTally == [paired |-> 0, length |-> 0, passed |-> 0]

RowsRead == tally.paired + tally.length + tally.passed

\* what the two filters of the aggregator are to do with a row, stated from the
\* columns alone: the history of the rows read
TallyRow(t, f) ==
    IF f[13] # 1 THEN [t EXCEPT !.paired = @ + 1]
    ELSE IF 100 * (f[12] - f[11]) < Alignment_Length_Threshold * (f[3] - f[2])
         THEN [t EXCEPT !.length = @ + 1]
         ELSE [t EXCEPT !.passed = @ + 1]

MonoIdle ==
    [F1 |-> 0, F2 |-> 0, n |-> 0, neg |-> FALSE,
     run1 |-> [amplicons |-> <<>>, aborted |-> FALSE],
     run2 |-> [amplicons |-> <<>>, aborted |-> FALSE]]

\* ---------------------------------------------------------------- run ----
Init ==
    /\ pc = "read_bed"
    /\ error = "none"
    /\ primer_scheme = <<>>
    /\ amplicons = <<>>
    /\ fields = <<>>
    /\ tally = NoTally
    /\ min_depth = 0
    /\ readCount = 0
    /\ dropouts = 0
    /\ amplicon_renamed_counts = <<>>
    /\ vcf_report = NoVcf
    /\ statsData = <<>>
    /\ plot_file = <<>>
    /\ stats_file = <<>>
    /\ mono = MonoIdle

\* line 103: primer_scheme = read_bed_file(schemeFile)
ReadBedFile ==
    /\ pc = "read_bed"
    /\ \E s \in Schemes : primer_scheme' = s
    /\ pc' = "resolve"
    /\ UNCHANGED <<error, amplicons, fields, tally, min_depth, readCount, dropouts,
                   amplicon_renamed_counts, vcf_report, statsData, plot_file,
                   stats_file, mono>>

\* lines 104-119 and line 195: the resolver returns the mapping or raises SystemExit
ResolveAmplicons ==
    /\ pc = "resolve"
    /\ LET r == getSchemeAmplicons(primer_scheme)
       IN  IF r.ok
           THEN /\ amplicons' = r.named
                /\ primer_scheme' = <<>>
                /\ pc' = "open_report"
                /\ error' = error
           ELSE /\ pc' = "abort"
                /\ error' = "scheme"
                /\ UNCHANGED <<amplicons, primer_scheme>>
    /\ UNCHANGED <<fields, tally, min_depth, readCount, dropouts,
                   amplicon_renamed_counts, vcf_report, statsData, plot_file,
                   stats_file, mono>>

\* lines 138-141: open the report and skip its header
OpenReport ==
    /\ pc = "open_report"
    /\ \E present \in BOOLEAN :
          IF present
          THEN pc' = "rows" /\ error' = error
          ELSE pc' = "abort" /\ error' = "io_report"
    /\ UNCHANGED <<primer_scheme, amplicons, fields, tally, min_depth, readCount,
                   dropouts, amplicon_renamed_counts, vcf_report, statsData,
                   plot_file, stats_file, mono>>

\* lines 144-145: the next line of the report, split into its fields
ReadRow ==
    /\ pc = "rows"
    /\ RowsRead < MaxRows
    /\ \E row \in Rows(DictKeys(amplicons) \cup {UnknownAmplicon}) :
          /\ fields' = row
          /\ tally' = TallyRow(tally, row)
    /\ pc' = "row"
    /\ UNCHANGED <<error, primer_scheme, amplicons, min_depth, readCount, dropouts,
                   amplicon_renamed_counts, vcf_report, statsData, plot_file,
                   stats_file, mono>>

\* lines 147-161: the row is skipped or counted, or the run aborts on it; the
\* fields of a row that was dealt with are not read again
CountRow ==
    /\ pc = "row"
    /\ LET r == RowStep(amplicons, fields, Alignment_Length_Threshold)
       IN  /\ amplicons' = r.amplicons
           /\ IF r.status = "abort"
              THEN pc' = "abort" /\ error' = "report" /\ fields' = fields
              ELSE pc' = "rows" /\ error' = error /\ fields' = <<>>
    /\ UNCHANGED <<primer_scheme, tally, min_depth, readCount, dropouts,
                   amplicon_renamed_counts, vcf_report, statsData, plot_file,
                   stats_file, mono>>

\* line 162 and line 198: the report is exhausted and the counts are returned
EndOfReport ==
    /\ pc = "rows"
    /\ pc' = "classify"
    /\ UNCHANGED <<error, primer_scheme, amplicons, fields, tally, min_depth, readCount,
                   dropouts, amplicon_renamed_counts, vcf_report, statsData,
                   plot_file, stats_file, mono>>

\* lines 201-208
Classify ==
    /\ pc = "classify"
    /\ \E d \in 0..MaxDepth : min_depth' = d
    /\ IF RenameFails(amplicons)
       THEN /\ pc' = "abort"
            /\ error' = "value"
            /\ UNCHANGED <<readCount, dropouts, amplicon_renamed_counts>>
       ELSE /\ readCount' = ReadCount(amplicons)
            /\ dropouts' = Dropouts(amplicons, min_depth')
            /\ amplicon_renamed_counts' = RenamedCounts(amplicons, <<>>)
            /\ pc' = "plot"
            /\ error' = error
    /\ UNCHANGED <<primer_scheme, amplicons, fields, tally, vcf_report, statsData,
                   plot_file, stats_file, mono>>

\* lines 211-216
WritePlotFile ==
    /\ pc = "plot"
    /\ plot_file' = WritePlot(PlotDocument(min_depth, amplicon_renamed_counts))
    /\ pc' = "stats"
    /\ UNCHANGED <<error, primer_scheme, amplicons, fields, tally, min_depth,
                   readCount, dropouts, amplicon_renamed_counts, vcf_report,
                   statsData, stats_file, mono>>

\* lines 219-225, with getVCFreportInfo (lines 178-189)
PopulateStats ==
    /\ pc = "stats"
    /\ \E v \in VcfReports :
          /\ vcf_report' = v
          /\ IF ~ v.given
             THEN /\ statsData' = BaseStats(readCount, dropouts)
                  /\ pc' = "write_stats" /\ error' = error
             ELSE IF ~ v.exists
             THEN /\ statsData' = BaseStats(readCount, dropouts)
                  /\ pc' = "abort" /\ error' = "io_vcf"
             ELSE IF v.rows = <<>>
             THEN /\ statsData' = BaseStats(readCount, dropouts)
                  /\ pc' = "abort" /\ error' = "vcf_empty"
             ELSE /\ statsData' = MergeStats(BaseStats(readCount, dropouts),
                                             VCFStats(Head(v.rows), <<>>))
                  /\ pc' = "write_stats" /\ error' = error
    /\ UNCHANGED <<primer_scheme, amplicons, fields, tally, min_depth, readCount,
                   dropouts, amplicon_renamed_counts, plot_file, stats_file, mono>>

\* lines 228-230
WriteStatsFile ==
    /\ pc = "write_stats"
    /\ stats_file' = <<statsData>>
    /\ pc' = "done"
    /\ UNCHANGED <<error, primer_scheme, amplicons, fields, tally, min_depth,
                   readCount, dropouts, amplicon_renamed_counts, vcf_report,
                   statsData, plot_file, mono>>

Next ==
    \/ ReadBedFile
    \/ ResolveAmplicons
    \/ OpenReport
    \/ ReadRow
    \/ CountRow
    \/ EndOfReport
    \/ Classify
    \/ WritePlotFile
    \/ PopulateStats
    \/ WriteStatsFile

Spec == Init /\ [][Next]_vars

\* ------------------------------------- one report under two thresholds ----
\* getAmpliconCounts reads the process-wide Alignment_Length_Threshold; here its
\* loop body is applied to the same rows under two thresholds F1 <= F2.
Thresholds == {0, 50, 95, 100}

MonoScheme ==
    <<[Primer_ID |-> <<"a", "1", "LEFT">>, direction |-> "+"],
      [Primer_ID |-> <<"a", "1", "RIGHT">>, direction |-> "-"],
      [Primer_ID |-> <<"a", "2", "LEFT">>, direction |-> "+"],
      [Primer_ID |-> <<"a", "2", "RIGHT">>, direction |-> "-"]>>

MonoRows ==
    {MkRow(rs, re, n, as, ae, p) :
        rs \in {0, 20}, re \in {0, 20},
        n \in DictKeys(getSchemeAmplicons(MonoScheme).named) \cup {UnknownAmplicon},
        as \in {0, 20}, ae \in {5, 10, 20}, p \in {0, 1}}

\* one run of the loop: nothing more is read once the run has aborted
MonoStep(run, f, F) ==
    IF run.aborted THEN run
    ELSE LET r == RowStep(run.amplicons, f, F)
         IN  [amplicons |-> r.amplicons, aborted |-> r.status = "abort"]

MonoInit ==
    /\ pc = "read_bed"
    /\ error = "none"
    /\ primer_scheme = <<>>
    /\ amplicons = <<>>
    /\ fields = <<>>
    /\ tally = NoTally
    /\ min_depth = 0
    /\ readCount = 0
    /\ dropouts = 0
    /\ amplicon_renamed_counts = <<>>
    /\ vcf_report = NoVcf
    /\ statsData = <<>>
    /\ plot_file = <<>>
    /\ stats_file = <<>>
    /\ \E f1 \in Thresholds, f2 \in Thresholds :
          /\ f1 <= f2
          /\ mono = [F1 |-> f1, F2 |-> f2, n |-> 0, neg |-> FALSE,
                     run1 |-> [amplicons |-> getSchemeAmplicons(MonoScheme).named,
                               aborted |-> FALSE],
                     run2 |-> [amplicons |-> getSchemeAmplicons(MonoScheme).named,
                               aborted |-> FALSE]]

MonoRow ==
    /\ mono.n < MaxMonoRows
    /\ \E row \in MonoRows :
          mono' = [mono EXCEPT
                      !.n = @ + 1,
                      !.neg = @ \/ (row[3] - row[2] < 0),
                      !.run1 = MonoStep(@, row, mono.F1),
                      !.run2 = MonoStep(@, row, mono.F2)]
    /\ UNCHANGED <<pc, error, primer_scheme, amplicons, fields, tally, min_depth,
                   readCount, dropouts, amplicon_renamed_counts, vcf_report,
                   statsData, plot_file, stats_file>>

MonoNext == MonoRow

SpecMono == MonoInit /\ [][MonoNext]_vars

\* ======================================================== properties ====
\* the columns of a row, as the report names them
Name(f) == f[4]
PairingFlag(f) == f[13]
AlignedLength(f) == f[12] - f[11]
AmpliconLength(f) == f[3] - f[2]

\* alignedLength >= 0.95 * ampliconLength
LengthAtLeast(f) == 100 * AlignedLength(f) >= 95 * AmpliconLength(f)

\* r >= 0.95 for the ratio r = alignedLength / ampliconLength (there is no ratio
\* when ampliconLength is 0)
RatioAtLeast(f) ==
    /\ AmpliconLength(f) # 0
    /\ IF AmpliconLength(f) > 0
       THEN 100 * AlignedLength(f) >= 95 * AmpliconLength(f)
       ELSE 100 * AlignedLength(f) <= 95 * AmpliconLength(f)

\* the step leaves every key in place and adds 1 to the count of `name` alone
CountedOnce(name) ==
    /\ Len(amplicons') = Len(amplicons)
    /\ \A i \in 1..Len(amplicons) :
          /\ amplicons'[i].k = amplicons[i].k
          /\ amplicons'[i].v = amplicons[i].v + (IF amplicons[i].k = name THEN 1 ELSE 0)

\* the sum of the counts, entry by entry
RECURSIVE SumTo(_, _)
SumTo(d, n) == IF n = 0 THEN 0 ELSE d[n].v + SumTo(d, n - 1)

\* classification has completed
Classified ==
    \/ pc \in {"plot", "stats", "write_stats", "done"}
    \/ pc = "abort" /\ error \in {"io_vcf", "vcf_empty"}

\* C1 as stated: a row whose amplicon is in the scheme adds exactly 1 to its
\* amplicon's count iff its pairing flag is 1 and alignedLength/ampliconLength
\* >= 0.95, and otherwise changes no count.
C1_Original ==
    [][(pc = "row" /\ DictHas(amplicons, Name(fields)))
         => IF PairingFlag(fields) = 1 /\ RatioAtLeast(fields)
            THEN CountedOnce(Name(fields))
            ELSE amplicons' = amplicons]_vars

\* C1 amended: a row whose amplicon is in the scheme adds exactly 1 to its
\* amplicon's count iff its pairing flag is 1 and alignedLength >= 0.95 *
\* ampliconLength (the ratio test when ampliconLength > 0), and otherwise
\* changes no count.
C1_CountedIffFlagAndLength ==
    [][(pc = "row" /\ DictHas(amplicons, Name(fields)))
         => IF PairingFlag(fields) = 1 /\ LengthAtLeast(fields)
            THEN CountedOnce(Name(fields))
            ELSE amplicons' = amplicons]_vars

\* C1 witness: rows of each kind were read: one dropped by each filter, one counted
C1_Witness ==
    /\ pc = "rows"
    /\ tally = [paired |-> 1, length |-> 1, passed |-> 1]
    /\ SumTo(amplicons, Len(amplicons)) = 1

\* C2 as stated: every row naming an amplicon that is no key of the mapping
\* aborts the run with the report-consistency error, whatever its flag and lengths.
C2_Original ==
    [][(pc = "row" /\ ~ DictHas(amplicons, Name(fields)))
         => (pc' = "abort" /\ error' = "report")]_vars

\* C2 amended: a row naming an amplicon that is no key of the mapping aborts the
\* run with the report-consistency error iff it passes the pairing filter and the
\* length filter; failing either, it is skipped and the run goes on.  No count changes.
C2_UnknownAbortsIffFiltersPass ==
    [][(pc = "row" /\ ~ DictHas(amplicons, Name(fields)))
         => /\ amplicons' = amplicons
            /\ IF PairingFlag(fields) = 1 /\ LengthAtLeast(fields)
               THEN pc' = "abort" /\ error' = "report"
               ELSE pc' = "rows" /\ error' = "none"]_vars

\* C2 witness: the run went on past a skipped row of an unknown amplicon and
\* aborted on a later one that passed both filters
C2_Witness ==
    /\ pc = "abort"
    /\ error = "report"
    /\ ~ DictHas(amplicons, Name(fields))
    /\ tally.paired + tally.length >= 1
    /\ SumTo(amplicons, Len(amplicons)) = 0
    /\ tally.passed = 1

\* the primer records of a base, by direction
RecordsOf(scheme, base, dir) ==
    {i \in 1..Len(scheme) : BaseOf(scheme[i]) = base /\ scheme[i].direction = dir}

\* C3 as stated: the resolver succeeds only if every base has exactly one LEFT
\* ('+') and exactly one RIGHT ('-') primer record.
C3_Claim ==
    [][(pc = "resolve" /\ pc' = "open_report")
         => \A i \in 1..Len(primer_scheme) :
               /\ Cardinality(RecordsOf(primer_scheme, BaseOf(primer_scheme[i]), "+")) = 1
               /\ Cardinality(RecordsOf(primer_scheme, BaseOf(primer_scheme[i]), "-")) = 1]_vars

\* the ordinal key the classification gives an entry of the mapping
OrdinalOf(key) == IF key[2] = "1" THEN 1 ELSE 2

\* C4 as stated: after classification the renumbered mapping has as many entries
\* as AmpliconCounts, and distinct AmpliconKeys have distinct ordinal keys, each
\* holding its own key's count.
C4_Claim ==
    Classified =>
        /\ Cardinality(DOMAIN amplicon_renamed_counts) = Len(amplicons)
        /\ \A i, j \in 1..Len(amplicons) :
              OrdinalOf(amplicons[i].k) = OrdinalOf(amplicons[j].k) => i = j
        /\ \A i \in 1..Len(amplicons) :
              amplicon_renamed_counts[OrdinalOf(amplicons[i].k)] = amplicons[i].v

\* the report of the example was read against a scheme of bases b1 and b2, and
\* the classification ran with min_depth = 2, no variant report failing the run
ExampleRun(b1, b2) ==
    /\ pc \in {"plot", "stats", "write_stats", "done", "abort"}
    /\ error \in {"none", "value"}
    /\ DictKeys(amplicons) = {AmpliconKey(b1), AmpliconKey(b2)}
    /\ Len(amplicons) = 2
    /\ DictGet(amplicons, AmpliconKey(b1)) = 3
    /\ DictGet(amplicons, AmpliconKey(b2)) = 1
    /\ tally = [paired |-> 1, length |-> 1, passed |-> 4]
    /\ min_depth = 2

\* what the example is to yield
ExampleResult ==
    /\ pc # "abort"
    /\ DOMAIN amplicon_renamed_counts = {1, 2}
    /\ amplicon_renamed_counts[1] = 3
    /\ amplicon_renamed_counts[2] = 1
    /\ readCount = 4
    /\ dropouts = 1
    /\ pc \in {"write_stats", "done"} =>
          /\ DictGet(statsData, "# mapped reads") = 4
          /\ DictGet(statsData, "# low cov. amplicons") = 1
    /\ pc = "done" => stats_file = <<statsData>>

MonoCountsOrdered ==
    /\ \A i \in 1..Len(mono.run1.amplicons) :
          mono.run2.amplicons[i].v <= mono.run1.amplicons[i].v
    /\ SumTo(mono.run2.amplicons, Len(mono.run2.amplicons))
          <= SumTo(mono.run1.amplicons, Len(mono.run1.amplicons))

\* C6 as stated: for thresholds F1 <= F2 and one report, the rows counted under
\* F2 are at most those counted under F1, per amplicon and in total, whatever the
\* integer values of the start and end columns.
C6_Original ==
    (~ mono.run1.aborted /\ ~ mono.run2.aborted) => MonoCountsOrdered

\* C6 amended: for thresholds F1 <= F2 and one report whose rows all have
\* rEnd - rStart >= 0 and which both aggregations read to its end, the rows
\* counted under F2 are at most those counted under F1, per amplicon and in total.
C6_MonotoneNonNegativeLength ==
    (~ mono.neg /\ ~ mono.run1.aborted /\ ~ mono.run2.aborted) => MonoCountsOrdered

\* C6 witness: a report of rows of non-negative amplicon length of which the
\* higher threshold counted strictly fewer
C6_Witness ==
    /\ ~ mono.neg /\ ~ mono.run1.aborted /\ ~ mono.run2.aborted
    /\ mono.n = MaxMonoRows
    /\ SumTo(mono.run2.amplicons, Len(mono.run2.amplicons)) >= 1
    /\ SumTo(mono.run2.amplicons, Len(mono.run2.amplicons))
          < SumTo(mono.run1.amplicons, Len(mono.run1.amplicons))

\* the number of primer records of the base of record i
PrimerCount(scheme, i) ==
    Cardinality({j \in 1..Len(scheme) : BaseOf(scheme[j]) = BaseOf(scheme[i])})

HasWrongCount(scheme) == \E i \in 1..Len(scheme) : PrimerCount(scheme, i) # 2

\* nothing of the report was read and nothing was written
NothingRead ==
    /\ fields = <<>>
    /\ tally = NoTally
    /\ plot_file = <<>>
    /\ stats_file = <<>>

\* C7: a scheme with a base whose primer count is not 2 makes the resolver abort
\* with the scheme-integrity error; run's mapping is never bound, not even to the
\* well-formed bases, and no row of the report is read before the abort.
C7_SchemeAbort ==
    /\ [][(pc = "resolve" /\ HasWrongCount(primer_scheme))
            => (pc' = "abort" /\ error' = "scheme" /\ amplicons' = <<>>)]_vars
    /\ [](error = "scheme" => (pc = "abort" /\ amplicons = <<>> /\ NothingRead))

\* C7 witness: the run aborted on a scheme with a well-formed base and a base
\* with a single primer
C7_Witness ==
    /\ pc = "abort"
    /\ error = "scheme"
    /\ \E i, j \in 1..Len(primer_scheme) :
          PrimerCount(primer_scheme, i) = 2 /\ PrimerCount(primer_scheme, j) = 1

\* the amplicons whose final count is strictly below the minimum depth
LowCoverage == {i \in 1..Len(amplicons) : amplicons[i].v < min_depth}

C10_WriteOrder ==
    /\ plot_file # <<>> => Classified /\ pc # "plot"
    /\ stats_file # <<>> => pc = "done" /\ plot_file # <<>>
    /\ pc \in {"stats", "write_stats", "done"} => plot_file # <<>>
    /\ (pc = "abort" /\ error \in {"io_vcf", "vcf_empty"}) =>
          /\ vcf_report.given
          /\ plot_file # <<>>
          /\ stats_file = <<>>

\* C10 witness: the run failed on a variant report without a data row, after
\* the plot file was written
C10_Witness ==
    /\ pc = "abort"
    /\ error = "vcf_empty"
    /\ vcf_report.exists
    /\ plot_file # <<>>
    /\ stats_file = <<>>

====
